---- MODULE Spec2Model ----
(***************************************************************************)
(* A model of graphics3d.py: the Vector arithmetic, the Camera basis and   *)
(* its projection, the GraphWin3d surface with its depth-sorted redraw,    *)
(* the 3D primitives (Point3d, Line3d, Triangle) and make_pizza_polygon.   *)
(*                                                                         *)
(* Numbers.  Python floats are modelled as exact rationals in fixed point. *)
(* Sines and cosines are taken from a table of angles whose sine and       *)
(* cosine are rational with denominator 5 (the quarter turns and the       *)
(* 3-4-5 angles), and are held multiplied by 5.  A Camera basis vector is  *)
(* the product of three such factors and is held multiplied by 125; a      *)
(* projected coordinate is held multiplied by 125 as well.                 *)
(***************************************************************************)
EXTENDS Integers, Sequences, FiniteSets, TLC

VARIABLES
    objs,     \* the primitives: id -> [kind, pts, config, canvas, id]
    cfgs,     \* the heap of style dictionaries: reference -> [option -> value]
    items,    \* GraphWin.items of the one surface: sequence of primitive ids
    cam,      \* GraphWin3d.cam: None (NoObject) or a Camera
    trans,    \* GraphWin.trans: None (NoObject) or a Transform
    display,  \* the canvas display list, bottom first
    log,      \* the primitives rasterized (_draw) by the last operation, in order
    call,     \* the last call: its name, arguments, result and error
    runs,     \* the number of redraws in a row with nothing in between (history)
    nmoves    \* the number of move calls made (history, bounds the model)

vars == <<objs, cfgs, items, cam, trans, display, log, call, runs, nmoves>>

None == "None"

\* None in an attribute that otherwise holds an object (the Camera, the Transform)
NoObject == [none |-> TRUE]

(***************************************************************************)
(* Bounds of the model.                                                    *)
(***************************************************************************)
MaxCoord == 1
MaxMoves == 1
MaxPoints == 4

Coords == (0 - MaxCoord)..MaxCoord
Pts == {<<x, y, z>> : x \in Coords, y \in Coords, z \in Coords}

(***************************************************************************)
(* class Vector                                                            *)
(***************************************************************************)
Vector(x, y, z) == <<x, y, z>>

VNeg(v) == <<0 - v[1], 0 - v[2], 0 - v[3]>>

VAdd(a, b) == <<a[1] + b[1], a[2] + b[2], a[3] + b[3]>>

VMul(v, k) == <<k * v[1], k * v[2], k * v[3]>>

VRmul(k, v) == VMul(v, k)

VDot(a, b) == a[1] * b[1] + a[2] * b[2] + a[3] * b[3]

VCopy(v) == <<v[1], v[2], v[3]>>

(***************************************************************************)
(* math.sin and math.cos of an angle in degrees, multiplied by 5.  The     *)
(* angles 37, 53, ... stand for atan(3/4) = 36.87 degrees, atan(4/3) =     *)
(* 53.13 degrees and their images in the other quadrants.                  *)
(***************************************************************************)
Cos5(a) ==
    CASE a = 0 -> 5 [] a = 37 -> 4 [] a = 53 -> 3 [] a = 90 -> 0
      [] a = 127 -> -3 [] a = 143 -> -4 [] a = 180 -> -5 [] a = 217 -> -4
      [] a = 233 -> -3 [] a = 270 -> 0 [] a = 307 -> 3 [] a = 323 -> 4

Sin5(a) ==
    CASE a = 0 -> 0 [] a = 37 -> 3 [] a = 53 -> 4 [] a = 90 -> 5
      [] a = 127 -> 4 [] a = 143 -> 3 [] a = 180 -> 0 [] a = 217 -> -3
      [] a = 233 -> -4 [] a = 270 -> -5 [] a = 307 -> -4 [] a = 323 -> -3

\* A vector that a rotation step copies unchanged, brought to the step's denominator.
Keep5(v) == VMul(v, 5)

\* The denominator of a Camera basis vector and of a projected coordinate.
Den == 5 * 5 * 5

(***************************************************************************)
(* class Camera                                                            *)
(***************************************************************************)
InitialBasisFlipped == [ux |-> Vector(0, 1, 0), uy |-> Vector(0, 0, 1), uz |-> Vector(-1, 0, 0)]

InitialBasis == [ux |-> Vector(0, 1, 0), uy |-> Vector(0, 0, -1), uz |-> Vector(-1, 0, 0)]

RotateAzSameSign(b, az) ==
    [ux |-> VAdd(VRmul(Cos5(az), b.ux), VRmul(Sin5(az), b.uz)),
     uy |-> Keep5(VCopy(b.uy)),
     uz |-> VAdd(VRmul(Sin5(az), b.ux), VRmul(Cos5(az), b.uz))]

RotateAz(b, az) ==
    [ux |-> VAdd(VRmul(Cos5(az), b.ux), VRmul(Sin5(az), b.uz)),
     uy |-> Keep5(VCopy(b.uy)),
     uz |-> VAdd(VRmul(0 - Sin5(az), b.ux), VRmul(Cos5(az), b.uz))]

RotateAlt(b, alt) ==
    [ux |-> Keep5(VCopy(b.ux)),
     uy |-> VAdd(VRmul(Cos5(alt), b.uy), VRmul(0 - Sin5(alt), b.uz)),
     uz |-> VAdd(VRmul(Sin5(alt), b.uy), VRmul(Cos5(alt), b.uz))]

RotateRoll(b, roll) ==
    [ux |-> VAdd(VRmul(Cos5(roll), b.ux), VRmul(Sin5(roll), b.uy)),
     uy |-> VAdd(VRmul(0 - Sin5(roll), b.ux), VRmul(Cos5(roll), b.uy)),
     uz |-> Keep5(VCopy(b.uz))]

\* Camera.__init__; az, alt and roll are kept beside the basis as history.
Camera(az, alt, roll) ==
    LET b == RotateRoll(RotateAlt(RotateAz(InitialBasis, az), alt), roll)
    IN  [az |-> az, alt |-> alt, roll |-> roll, ux |-> b.ux, uy |-> b.uy, uz |-> b.uz]

\* Camera.project: the result is the projected point times Den.
Project(c, p) == <<VDot(p, c.ux), VDot(p, c.uy), VDot(p, c.uz)>>

\* Camera.invert: for an argument held times k the result is the world point
\* times k * Den.
Invert(c, q) == VAdd(VAdd(VRmul(q[1], c.ux), VRmul(q[2], c.uy)), VRmul(q[3], c.uz))

(***************************************************************************)
(* The window.  GraphWin3d(title, width=300, height=300): one open surface. *)
(***************************************************************************)
WinWidth == 300
WinHeight == 300

\* graphics.Transform as GraphWin3d.setCoords builds it.  The corners are
\* half-integers and are passed doubled: xbase = xbase2 / 2, ybase = ybase2 / 2,
\* xscale = (xspan2 / 2) / wm1 and yscale = (yspan2 / 2) / hm1.
Transform(w, h, xlow2, ylow2, xhigh2, yhigh2) ==
    [xbase2 |-> xlow2, ybase2 |-> yhigh2,
     xspan2 |-> xhigh2 - xlow2, yspan2 |-> yhigh2 - ylow2,
     wm1 |-> w - 1, hm1 |-> h - 1]

\* The corners setCoords computes, doubled: the y values are passed reversed.
SetCoordsTransform(xcenter, ycenter, scale) ==
    Transform(WinWidth, WinHeight,
              2 * xcenter - WinWidth * scale, 2 * ycenter + WinHeight * scale,
              2 * xcenter + WinWidth * scale, 2 * ycenter - WinHeight * scale)

\* Python's int(): the quotient n / d rounded toward zero (d # 0).
Abs(n) == IF n < 0 THEN 0 - n ELSE n
Sgn(n) == IF n < 0 THEN -1 ELSE 1
IntTrunc(n, d) == Sgn(n) * Sgn(d) * (Abs(n) \div Abs(d))

\* Transform.screen on a point held times Den: int(xs + 0.5), int(ys + 0.5), where
\* xs = (x - xbase) / xscale and ys = (ybase - y) / yscale.  The pixel is returned
\* times Den, the unit of every coordinate of the display list.
Screen(t, X, Y) ==
    <<Den * IntTrunc(2 * (2 * X - Den * t.xbase2) * t.wm1 + Den * t.xspan2,
                     2 * Den * t.xspan2),
      Den * IntTrunc(2 * (Den * t.ybase2 - 2 * Y) * t.hm1 + Den * t.yspan2,
                     2 * Den * t.yspan2)>>

\* GraphWin.toScreen: without a Transform the coordinates pass through.
ToScreen(t, X, Y) == IF t = NoObject THEN <<X, Y>> ELSE Screen(t, X, Y)

\* GraphWin3d.toProjection: without a Camera the point passes through (times Den).
ToProjection(c, p) == IF c = NoObject THEN VMul(p, Den) ELSE Project(c, p)

\* GraphWin3d.toInversion.
ToInversion(c, q) == IF c = NoObject THEN VMul(q, Den) ELSE Invert(c, q)

(***************************************************************************)
(* The primitives.  Point3d, Line3d and Triangle are the 3D primitives of  *)
(* this module; Point, Line and Polygon are the 2D ones of graphics.py.    *)
(* A primitive's pts are its owned coordinates (p1, p2, p3), config is the *)
(* reference of its style dictionary in cfgs, canvas is None or Win, and   *)
(* id is None or its canvas handle (the owner's number stands for the      *)
(* fresh integer Tk returns).                                              *)
(***************************************************************************)
Win == "win"

Kinds3d == {"Point3d", "Line3d", "Triangle"}

Is3d(ob) == ob.kind \in Kinds3d

\* GraphicsObject.__init__(options): the options' values from DEFAULT_CONFIG,
\* and for a Line3d setFill(DEFAULT_CONFIG["outline"]).
DefaultConfig(kind) ==
    CASE kind \in {"Point3d", "Point"} -> [outline |-> "black", fill |-> ""]
      [] kind \in {"Line3d", "Line"} -> [arrow |-> "none", fill |-> "black", width |-> "1"]
      [] kind \in {"Triangle", "Polygon"} -> [outline |-> "black", width |-> "1", fill |-> ""]

NewObj(kind, pts, ref) == [kind |-> kind, pts |-> pts, config |-> ref, canvas |-> None, id |-> None]

\* _center3d, held times 6: the point itself, 0.5 * (p1 + p2), (v1 + v2 + v3) / 3.0.
Center3d(ob) ==
    CASE ob.kind = "Point3d" -> VMul(ob.pts[1], 6)
      [] ob.kind = "Line3d" -> VMul(VAdd(ob.pts[1], ob.pts[2]), 3)
      [] ob.kind = "Triangle" -> VMul(VAdd(VAdd(ob.pts[1], ob.pts[2]), ob.pts[3]), 2)

\* GraphicsObject3d.getDepth: the projected z of the center (times 6 * Den), or
\* the AttributeError of self.canvas.toProjection when self.canvas is None.
GetDepthOf(ob, c) ==
    IF ob.canvas = None
    THEN [err |-> "AttributeError", val |-> 0]
    ELSE [err |-> None, val |-> ToProjection(c, Center3d(ob))[3]]

\* A sort key: <<1, v>> is the number v, <<0, 0>> is float("-inf").
MinusInf == <<0, 0>>

KeyGE(a, b) == a[1] > b[1] \/ (a[1] = b[1] /\ (a[1] = 0 \/ a[2] >= b[2]))

\* redraw's depth(my_item): getDepth(), and -inf on AttributeError (a 2D item has
\* no getDepth).
DepthKey(ob, c) ==
    IF ~Is3d(ob) THEN MinusInf
    ELSE LET d == GetDepthOf(ob, c)
         IN  IF d.err = "AttributeError" THEN MinusInf ELSE <<1, d.val>>

\* The _draw methods: the display-list entry a primitive creates.
Px(c, t, p) == LET q == ToProjection(c, p) IN ToScreen(t, q[1], q[2])

Px2d(t, p) == ToScreen(t, Den * p[1], Den * p[2])

DrawEntry(o, ob, opts, c, t) ==
    CASE ob.kind = "Point3d" ->
           LET a == Px(c, t, ob.pts[1])
           IN  [owner |-> o, shape |-> "rectangle",
                xy |-> <<a, <<a[1] + Den, a[2] + Den>>>>, opts |-> opts]
      [] ob.kind = "Line3d" ->
           [owner |-> o, shape |-> "line",
            xy |-> <<Px(c, t, ob.pts[1]), Px(c, t, ob.pts[2])>>, opts |-> opts]
      [] ob.kind = "Triangle" ->
           [owner |-> o, shape |-> "polygon",
            xy |-> <<Px(c, t, ob.pts[1]), Px(c, t, ob.pts[2]), Px(c, t, ob.pts[3])>>,
            opts |-> opts]
      [] ob.kind = "Point" ->
           LET a == Px2d(t, ob.pts[1])
           IN  [owner |-> o, shape |-> "rectangle",
                xy |-> <<a, <<a[1] + Den, a[2] + Den>>>>, opts |-> opts]

(***************************************************************************)
(* sorted(self.items, key=depth, reverse=True): a stable sort, so items     *)
(* with equal keys keep the order they have in the list.  k maps an item   *)
(* to its key.                                                             *)
(***************************************************************************)
RECURSIVE FirstBelow(_, _, _, _)
\* The first index i >= from of acc whose key is below the key of x (Len(acc) + 1 if none).
FirstBelow(acc, k, x, from) ==
    IF from > Len(acc) THEN from
    ELSE IF ~KeyGE(k[acc[from]], k[x]) THEN from
    ELSE FirstBelow(acc, k, x, from + 1)

InsertDesc(acc, k, x) ==
    LET i == FirstBelow(acc, k, x, 1)
    IN  SubSeq(acc, 1, i - 1) \o <<x>> \o SubSeq(acc, i, Len(acc))

RECURSIVE SortInto(_, _, _)
SortInto(acc, k, rest) ==
    IF rest = <<>> THEN acc ELSE SortInto(InsertDesc(acc, k, Head(rest)), k, Tail(rest))

RECURSIVE Reverse(_)
Reverse(seq) == IF seq = <<>> THEN <<>> ELSE Append(Reverse(Tail(seq)), Head(seq))

\* sorted(self.items, key=depth)[::-1]: an ascending stable sort read backwards,
\* so equal keys come out in reverse order.
SortedAscendingReversed(seq, k) == SortInto(<<>>, k, Reverse(seq))

\* sorted(self.items, key=depth) without reverse=True: nearest first.
SortedAscending(seq, k) == Reverse(SortInto(<<>>, k, Reverse(seq)))

Sorted(seq, k) == SortInto(<<>>, k, seq)

(***************************************************************************)
(* GraphicsObject.undraw and GraphicsObject.draw (graphics.py), on a record *)
(* h = [objs, items, display, log, err] of the state they change.          *)
(***************************************************************************)
RECURSIVE RemoveFirst(_, _)
\* list.remove
RemoveFirst(seq, x) ==
    IF seq = <<>> THEN <<>>
    ELSE IF Head(seq) = x THEN Tail(seq)
    ELSE <<Head(seq)>> \o RemoveFirst(Tail(seq), x)

\* canvas.delete(id)
DeleteEntry(disp, id) == SelectSeq(disp, LAMBDA e : e.owner # id)

UndrawObj(h, o) ==
    IF h.objs[o].canvas = None THEN h
    ELSE [h EXCEPT !.display = DeleteEntry(h.display, h.objs[o].id),
                   !.items = RemoveFirst(h.items, o),
                   !.objs = [h.objs EXCEPT ![o].canvas = None, ![o].id = None]]

DrawObj(h, o, heap, c, t) ==
    IF h.objs[o].canvas # None THEN [h EXCEPT !.err = "GraphicsError"]
    ELSE [h EXCEPT !.objs = [h.objs EXCEPT ![o].canvas = Win, ![o].id = o],
                   !.display = Append(h.display,
                                      DrawEntry(o, h.objs[o], heap[h.objs[o].config], c, t)),
                   !.items = Append(h.items, o),
                   !.log = Append(h.log, o)]

(***************************************************************************)
(* GraphWin3d.redraw                                                       *)
(***************************************************************************)
RECURSIVE RedrawLoop(_, _, _, _, _)
RedrawLoop(h, order, heap, c, t) ==
    IF order = <<>> \/ h.err # None THEN h
    ELSE RedrawLoop(DrawObj(UndrawObj(h, Head(order)), Head(order), heap, c, t),
                    Tail(order), heap, c, t)

DepthKeys(h, c) == [o \in DOMAIN h.objs |-> DepthKey(h.objs[o], c)]

RedrawOf(h, heap, c, t) == RedrawLoop(h, Sorted(h.items, DepthKeys(h, c)), heap, c, t)

(***************************************************************************)
(* The operations on the surface and on the primitives.                    *)
(***************************************************************************)
St == [objs |-> objs, items |-> items, display |-> display, log |-> <<>>, err |-> None]

Called(op, args, ret, err) == [op |-> op, args |-> args, ret |-> ret, err |-> err]

\* The number under which clone() stores the primitive it returns.
CloneId == 0

Originals == DOMAIN objs \ {CloneId}

\* item.draw(win) by the caller
Draw(o) ==
    \E h \in {DrawObj(St, o, cfgs, cam, trans)} :
        /\ objs' = h.objs /\ items' = h.items /\ display' = h.display /\ log' = h.log
        /\ call' = Called("draw", <<o>>, None, h.err)
        /\ runs' = 0
        /\ UNCHANGED <<cfgs, cam, trans, nmoves>>

\* item.undraw() by the caller
Undraw(o) ==
    \E h \in {UndrawObj(St, o)} :
        /\ objs' = h.objs /\ items' = h.items /\ display' = h.display /\ log' = h.log
        /\ call' = Called("undraw", <<o>>, None, None)
        /\ runs' = 0
        /\ UNCHANGED <<cfgs, cam, trans, nmoves>>

\* GraphWin3d.redraw
Redraw ==
    \E h \in {RedrawOf(St, cfgs, cam, trans)} :
        /\ objs' = h.objs /\ items' = h.items /\ display' = h.display /\ log' = h.log
        /\ call' = Called("redraw", <<>>, None, h.err)
        /\ runs' = IF runs < 2 THEN runs + 1 ELSE runs
        /\ UNCHANGED <<cfgs, cam, trans, nmoves>>

\* A setCamera that redraws before it installs the new Camera.
SetCameraRedrawFirst(az, alt, roll) ==
    \E h \in {RedrawOf(St, cfgs, cam, trans)} :
        /\ cam' = Camera(az, alt, roll)
        /\ objs' = h.objs /\ items' = h.items /\ display' = h.display /\ log' = h.log
        /\ call' = Called("setCamera", <<az, alt, roll>>, None, h.err)
        /\ runs' = 1
        /\ UNCHANGED <<cfgs, trans, nmoves>>

\* GraphWin3d.setCamera
SetCamera(az, alt, roll) ==
    \E c \in {Camera(az, alt, roll)} : \E h \in {RedrawOf(St, cfgs, c, trans)} :
        /\ cam' = c
        /\ objs' = h.objs /\ items' = h.items /\ display' = h.display /\ log' = h.log
        /\ call' = Called("setCamera", <<az, alt, roll>>, None, h.err)
        /\ runs' = 1
        /\ UNCHANGED <<cfgs, trans, nmoves>>

\* GraphWin3d.setCoords
SetCoords(xcenter, ycenter, scale) ==
    \E t \in {SetCoordsTransform(xcenter, ycenter, scale)} : \E h \in {RedrawOf(St, cfgs, cam, t)} :
        /\ trans' = t
        /\ objs' = h.objs /\ items' = h.items /\ display' = h.display /\ log' = h.log
        /\ call' = Called("setCoords", <<xcenter, ycenter, scale>>, None, h.err)
        /\ runs' = 1
        /\ UNCHANGED <<cfgs, cam, nmoves>>

\* The _move methods: every owned point is translated (a Line3d and a Triangle
\* move their detached Point3d copies, whose move stops after _move).
MovePts(pts, d) == [i \in DOMAIN pts |-> VAdd(pts[i], d)]

\* GraphicsObject3d.move.  After _move, on a drawn primitive, the incremental
\* move is computed: with a Camera, cam.toProjection is no attribute of a Camera
\* (AttributeError); without one, x + dx reads the undefined name x (NameError).
\* canvas.move is never reached.
Move(o, d) ==
    /\ nmoves < MaxMoves
    /\ Is3d(objs[o])
    /\ objs' = [objs EXCEPT ![o].pts = MovePts(objs[o].pts, d)]
    /\ call' = Called("move", <<o, d>>, None,
                      IF objs[o].canvas = None THEN None
                      ELSE IF cam # NoObject THEN "AttributeError" ELSE "NameError")
    /\ log' = <<>>
    /\ runs' = 0
    /\ nmoves' = nmoves + 1
    /\ UNCHANGED <<cfgs, items, cam, trans, display>>

\* GraphicsObject3d.getDepth called by the user
GetDepth(o) ==
    /\ Is3d(objs[o])
    /\ LET d == GetDepthOf(objs[o], cam)
       IN  call' = Called("getDepth", <<o>>, IF d.err = None THEN <<1, d.val>> ELSE None, d.err)
    /\ log' = <<>>
    /\ runs' = 0
    /\ UNCHANGED <<objs, cfgs, items, cam, trans, display, nmoves>>

\* A setArrow that does not test the option.
SetArrowUnchecked(o, option) ==
    /\ objs[o].kind = "Line3d"
    /\ cfgs' = [cfgs EXCEPT ![objs[o].config].arrow = option]
    /\ display' = IF objs[o].canvas = None THEN display
                  ELSE [i \in DOMAIN display |->
                          IF display[i].owner = objs[o].id
                          THEN [display[i] EXCEPT !.opts = cfgs'[objs[o].config]]
                          ELSE display[i]]
    /\ call' = Called("setArrow", <<o, option>>, None, None)
    /\ log' = <<>>
    /\ runs' = 0
    /\ UNCHANGED <<objs, items, cam, trans, nmoves>>

\* Line3d.setArrow, with GraphicsObject._reconfig
SetArrow(o, option) ==
    /\ objs[o].kind = "Line3d"
    /\ IF option \notin {"first", "last", "both", "none"}
       THEN /\ call' = Called("setArrow", <<o, option>>, None, "GraphicsError")
            /\ UNCHANGED <<cfgs, display>>
       ELSE /\ cfgs' = [cfgs EXCEPT ![objs[o].config].arrow = option]
            /\ display' = IF objs[o].canvas = None THEN display
                          ELSE [i \in DOMAIN display |->
                                  IF display[i].owner = objs[o].id
                                  THEN [display[i] EXCEPT !.opts = cfgs'[objs[o].config]]
                                  ELSE display[i]]
            /\ call' = Called("setArrow", <<o, option>>, None, None)
    /\ log' = <<>>
    /\ runs' = 0
    /\ UNCHANGED <<objs, items, cam, trans, nmoves>>

\* Point3d.clone, Line3d.clone (a graphics.Line of clones of p1 and p2) and
\* Triangle.clone (a graphics.Polygon, whose constructor maps Point.clone over
\* the points: 2D Points under Python 3, a TypeError under Python 2).
Drop3rd(p) == <<p[1], p[2]>>

CloneOf(ob, py) ==
    CASE ob.kind = "Point3d" -> [err |-> None, ob |-> NewObj("Point3d", ob.pts, CloneId)]
      [] ob.kind = "Line3d" -> [err |-> None, ob |-> NewObj("Line", ob.pts, CloneId)]
      [] ob.kind = "Triangle" ->
           IF py = 2 THEN [err |-> "TypeError", ob |-> None]
           ELSE [err |-> None,
                 ob |-> NewObj("Polygon", [i \in DOMAIN ob.pts |-> Drop3rd(ob.pts[i])], CloneId)]

Clone(o, py) ==
    /\ Is3d(objs[o])
    /\ o # CloneId
    /\ LET r == CloneOf(objs[o], py)
       IN  IF r.err # None
           THEN /\ call' = Called("clone", <<o>>, None, r.err)
                /\ UNCHANGED <<objs, cfgs>>
           ELSE /\ objs' = (CloneId :> r.ob) @@ objs
                /\ cfgs' = (CloneId :> cfgs[objs[o].config]) @@ cfgs
                /\ call' = Called("clone", <<o>>, CloneId, None)
    /\ log' = <<>>
    /\ runs' = 0
    /\ UNCHANGED <<items, cam, trans, display, nmoves>>

(***************************************************************************)
(* make_pizza_polygon.  The hub is (1.0 / N) times the sum of the points;   *)
(* a slice is the Triangle of points[i], points[ii] and the hub,           *)
(* its three vertices held times den = N.                                  *)
(***************************************************************************)
RECURSIVE SumPts(_)
SumPts(points) ==
    IF points = <<>> THEN Vector(0, 0, 0) ELSE VAdd(Head(points), SumPts(Tail(points)))

Slice(points, i, ii) ==
    [kind |-> "Triangle", den |-> Len(points),
     pts |-> <<VMul(points[i], Len(points)), VMul(points[ii], Len(points)), SumPts(points)>>]

\* ii = (i + 1) % len(points) without the wrap-around: the last slice is lost
\* to an IndexError.
NextIndexNoWrap(i, n) == i + 1

\* ii = (i + 1) % len(points), for the 1-based i of a sequence
NextIndex(i, n) == (i % n) + 1

MakePizzaPolygonOf(points) ==
    IF Len(points) < 3 THEN [err |-> "AssertionError", ret |-> <<>>]
    ELSE IF \E i \in 1..Len(points) : NextIndex(i, Len(points)) \notin 1..Len(points)
    THEN [err |-> "IndexError", ret |-> <<>>]
    ELSE [err |-> None,
          ret |-> [i \in 1..Len(points) |-> Slice(points, i, NextIndex(i, Len(points)))]]

MakePizzaPolygon(points) ==
    /\ call.op = "none"
    /\ LET r == MakePizzaPolygonOf(points)
       IN  call' = Called("make_pizza_polygon", points, r.ret, r.err)
    /\ UNCHANGED <<objs, cfgs, items, cam, trans, display, log, runs, nmoves>>

(***************************************************************************)
(* The Camera on its own: construction, project, and invert of a projected *)
(* point.                                                                  *)
(***************************************************************************)
NewCamera(az, alt, roll) ==
    /\ cam = NoObject
    /\ cam' = Camera(az, alt, roll)
    /\ call' = Called("Camera", <<az, alt, roll>>, None, None)
    /\ UNCHANGED <<objs, cfgs, items, trans, display, log, runs, nmoves>>

CamProject(p) ==
    /\ cam # NoObject
    /\ call.op = "Camera"
    /\ call' = Called("project", p, Project(cam, p), None)
    /\ UNCHANGED <<objs, cfgs, items, cam, trans, display, log, runs, nmoves>>

\* invert applied to what project returned (times Den); of is the world point
CamInvert ==
    /\ cam # NoObject
    /\ call.op = "project"
    /\ call' = Called("invert", [q |-> call.ret, of |-> call.args], Invert(cam, call.ret), None)
    /\ UNCHANGED <<objs, cfgs, items, cam, trans, display, log, runs, nmoves>>

(***************************************************************************)
(* The scenes and the inputs.                                              *)
(***************************************************************************)
\* Three triangles at depths 5, 1 and 3 along z, and a 2D Point.
SceneObjs ==
    (1 :> NewObj("Triangle", <<Vector(0, 0, 5), Vector(3, 0, 5), Vector(0, 3, 5)>>, 1))
    @@ (2 :> NewObj("Triangle", <<Vector(0, 0, 1), Vector(3, 0, 1), Vector(0, -3, 1)>>, 2))
    @@ (3 :> NewObj("Triangle", <<Vector(-3, 0, 3), Vector(0, 0, 3), Vector(0, 3, 3)>>, 3))
    @@ (4 :> NewObj("Point", <<<<1, 1>>>>, 4))

\* One primitive of each 3D kind.
KindObjs ==
    (1 :> NewObj("Point3d", <<Vector(0, 1, 2)>>, 1))
    @@ (2 :> NewObj("Line3d", <<Vector(0, 0, 0), Vector(2, 2, 4)>>, 2))
    @@ (3 :> NewObj("Triangle", <<Vector(0, 0, 5), Vector(3, 0, 5), Vector(0, 3, 5)>>, 3))

ConfigsOf(pool) == [o \in DOMAIN pool |-> DefaultConfig(pool[o].kind)]

SceneAngles == {<<0, 0, 0>>, <<37, 53, 127>>}
KindAngles == {<<90, 0, 0>>}
Centers == {<<1, -1>>}
Scales == {2}
Deltas == {Vector(1, 0, 3)}
ArrowOptions == {"first", "last", "both", "none", "diagonal"}
Pythons == {2, 3}
CamAngles == {0, 37, 90, 127, 180, 217, 270, 307}
PizzaPts == {Vector(0, 0, 0), Vector(2, 0, 0), Vector(2, 2, 1), Vector(0, 2, -1), Vector(-1, 1, 3)}

RECURSIVE SeqsUpTo(_, _)
SeqsUpTo(S, n) ==
    IF n = 0 THEN {<<>>}
    ELSE LET shorter == SeqsUpTo(S, n - 1)
         IN  shorter \cup {Append(q, x) : q \in {r \in shorter : Len(r) = n - 1}, x \in S}

InitWith(pool) ==
    /\ objs = pool
    /\ cfgs = ConfigsOf(pool)
    /\ items = <<>>
    /\ cam = NoObject
    /\ trans = NoObject
    /\ display = <<>>
    /\ log = <<>>
    /\ call = Called("none", <<>>, None, None)
    /\ runs = 0
    /\ nmoves = 0

\* The surface with its scene: the compositor.
Init == InitWith(SceneObjs)

Next ==
    \/ \E o \in Originals : Draw(o)
    \/ \E o \in Originals : Undraw(o)
    \/ Redraw
    \/ \E a \in SceneAngles : SetCamera(a[1], a[2], a[3])
    \/ \E c \in Centers, s \in Scales : SetCoords(c[1], c[2], s)
    \/ \E o \in Originals, d \in Deltas : Move(o, d)

Spec == Init /\ [][Next]_vars

\* The primitives' own operations.
InitKinds == InitWith(KindObjs)

NextKinds ==
    \/ \E o \in Originals : Draw(o)
    \/ \E o \in Originals : Undraw(o)
    \/ \E a \in KindAngles : SetCamera(a[1], a[2], a[3])
    \/ \E o \in Originals, d \in Deltas : Move(o, d)
    \/ \E o \in Originals : GetDepth(o)
    \/ \E o \in Originals, opt \in ArrowOptions : SetArrow(o, opt)
    \/ \E o \in Originals, py \in Pythons : Clone(o, py)

SpecKinds == InitKinds /\ [][NextKinds]_vars

\* The Camera.
InitCam == InitWith(<<>>)

NextCam ==
    \/ \E az \in CamAngles, alt \in CamAngles, roll \in CamAngles : NewCamera(az, alt, roll)
    \/ \E p \in Pts : CamProject(p)
    \/ CamInvert

SpecCam == InitCam /\ [][NextCam]_vars

\* make_pizza_polygon.
NextPizza == \E points \in SeqsUpTo(PizzaPts, MaxPoints) : MakePizzaPolygon(points)

SpecPizza == InitCam /\ [][NextPizza]_vars

(***************************************************************************)
(* The properties.                                                         *)
(***************************************************************************)
Range(seq) == {seq[i] : i \in DOMAIN seq}

Count(seq, x) == Cardinality({i \in DOMAIN seq : seq[i] = x})

IndexOf(seq, x) == CHOOSE i \in DOMAIN seq : seq[i] = x

\* The depth key of an attached item: the projected z of its centroid for a 3D
\* primitive, minus infinity for a 2D item.
KeyUnder(ob, c) == IF Is3d(ob) THEN <<1, ToProjection(c, Center3d(ob))[3]>> ELSE MinusInf

\* lg holds every item of before exactly once, farthest first, items of equal
\* key in the order they have in before.
InDepthOrder(before, lg, obs, c) ==
    /\ Len(lg) = Len(before)
    /\ \A o \in Range(before) : Count(before, o) = 1 /\ Count(lg, o) = 1
    /\ \A i \in DOMAIN lg : \A j \in DOMAIN lg :
         i < j =>
           /\ KeyGE(KeyUnder(obs[lg[i]], c), KeyUnder(obs[lg[j]], c))
           /\ KeyUnder(obs[lg[i]], c) = KeyUnder(obs[lg[j]], c)
                => IndexOf(before, lg[i]) < IndexOf(before, lg[j])
           /\ ~Is3d(obs[lg[i]]) => ~Is3d(obs[lg[j]])

\* C1: redraw rasterizes every primitive attached to the surface exactly once,
\* farthest first by the projected z of its centroid under the current camera,
\* the 2D items (key minus infinity) after all 3D primitives, primitives of equal
\* key in their previous relative order.
C1_RedrawDepthOrder ==
    [][call'.op = "redraw" => call'.err = None /\ InDepthOrder(items, log', objs, cam)]_vars

\* The three triangles at depths 5, 1, 3 (no camera: depth is z) were attached
\* with the 2D point first and came out of redraw in the order 5, 3, 1, the 2D
\* point last.
C1_Witness ==
    /\ call.op = "redraw" /\ cam = NoObject /\ nmoves = 0
    /\ log = <<1, 3, 2, 4>>

\* C9: redraw keeps the set of attached primitives (none lost, none duplicated,
\* each still attached to the surface), and a redraw that follows a redraw with
\* nothing in between rasterizes the same primitives in the same order and leaves
\* the same drawn state.
C9_RedrawIdempotent ==
    [][call'.op = "redraw" =>
         /\ Range(items') = Range(items) /\ Len(items') = Len(items)
         /\ \A o \in Range(items') : Count(items', o) = 1 /\ objs'[o].canvas = Win
         /\ runs >= 1 => /\ log' = log /\ display' = display
                         /\ items' = items /\ objs' = objs]_vars

\* Two redraws in a row of the whole scene under the zero-angle camera, where
\* triangles 1 and 2 have equal keys.
C9_Witness ==
    /\ call.op = "redraw" /\ runs = 2 /\ Len(log) = 4
    /\ cam # NoObject /\ cam.az = 0 /\ cam.alt = 0 /\ cam.roll = 0
    /\ KeyUnder(objs[1], cam) = KeyUnder(objs[2], cam)

\* What holds when setCamera or setCoords returns: the new Camera or Transform is
\* installed, and every primitive that was attached has been rasterized exactly
\* once under the Camera and Transform now installed, in depth order under the
\* Camera now installed.
RedrawnUnderNew ==
    /\ call'.err = None
    /\ call'.op = "setCamera" => cam' = Camera(call'.args[1], call'.args[2], call'.args[3])
    /\ call'.op = "setCoords" =>
         trans' = SetCoordsTransform(call'.args[1], call'.args[2], call'.args[3])
    /\ InDepthOrder(items, log', objs', cam')
    /\ items' = log'
    /\ display' = [i \in DOMAIN log' |->
                     DrawEntry(log'[i], objs'[log'[i]], cfgs'[objs'[log'[i]].config],
                               cam', trans')]
    /\ \A o \in Range(log') : objs'[o].canvas = Win

\* C10 as amended: every setCamera and setCoords ends with a full redraw under the
\* newly installed Camera or Transform; the surface holds the new one, and at most
\* one Camera and at most one Transform (the one never set is absent).
C10_RedrawnOnChange ==
    [][call'.op \in {"setCamera", "setCoords"} => RedrawnUnderNew]_vars

\* setCamera returned with the whole scene attached and a Transform installed.
C10_Witness ==
    /\ call.op = "setCamera" /\ Len(log) = 4 /\ trans # NoObject
    /\ cam # NoObject /\ cam.az = 37

\* C10 as stated: ..., and the surface holds exactly one Camera and one Transform.
C10_AsStated ==
    call.op \in {"setCamera", "setCoords"} => cam # NoObject /\ trans # NoObject

ZeroAngles == cam # NoObject /\ cam.az = 0 /\ cam.alt = 0 /\ cam.roll = 0

\* C2 as amended: for a Camera constructed with azimuth = altitude = roll = 0,
\* project(x, y, z) returns exactly (y, -z, -x) for every world point (x, y, z).
C2_ZeroAngleProject ==
    (call.op = "project" /\ ZeroAngles) =>
        call.ret = VMul(<<call.args[2], 0 - call.args[3], 0 - call.args[1]>>, Den)

\* project was applied under the zero-angle camera to a point with z # 0.
C2_Witness == call.op = "project" /\ ZeroAngles /\ call.args = <<1, -1, 1>>

\* C2 as stated: at zero angles project(x, y, z) returns exactly (y, z, -x).
C2_AsStated ==
    (call.op = "project" /\ ZeroAngles) =>
        call.ret = VMul(<<call.args[2], call.args[3], 0 - call.args[1]>>, Den)

C3_AsStated ==
    (call.op = "getDepth" /\ objs[call.args[1]].canvas = None) =>
        call.err = None /\ call.ret = MinusInf

\* The pixel delta of the incremental move of a primitive moved by d: where its
\* first point is drawn after the move minus where it was drawn before.
PixelDelta(ob, d, c, t) ==
    LET after == Px(c, t, ob.pts[1])
        before == Px(c, t, VAdd(ob.pts[1], VNeg(d)))
    IN  <<after[1] - before[1], after[2] - before[2]>>

\* C4 as stated: move on a primitive drawn on the open surface completes without
\* error, translates every owned coordinate, and issues one incremental move whose
\* pixel delta is the post-move minus the pre-move screen position.
C4_AsStated ==
    (call.op = "move" /\ objs[call.args[1]].canvas = Win) =>
        /\ call.err = None
        /\ call.ret = PixelDelta(objs[call.args[1]], call.args[2], cam, trans)

\* C5 as stated: clone() of a Point3d, Line3d or Triangle returns a new primitive
\* of the same kind, with equal coordinates and an equal style dictionary of its
\* own, attached to no surface.
C5_AsStated ==
    call.op = "clone" =>
        /\ call.err = None
        /\ objs[CloneId].kind = objs[call.args[1]].kind
        /\ objs[CloneId].pts = objs[call.args[1]].pts
        /\ objs[CloneId].config # objs[call.args[1]].config
        /\ cfgs[objs[CloneId].config] = cfgs[objs[call.args[1]].config]
        /\ objs[CloneId].canvas = None

ValidArrows == {"first", "last", "both", "none"}

\* C7: Line3d.setArrow with an option outside {first, last, both, none} fails with
\* the invalid-option error and leaves the arrow mode and all other state as
\* before; with an option of the set it succeeds and the arrow mode becomes it.
C7_SetArrow ==
    [][call'.op = "setArrow" =>
         IF call'.args[2] \in ValidArrows
         THEN /\ call'.err = None
              /\ cfgs'[objs'[call'.args[1]].config].arrow = call'.args[2]
         ELSE /\ call'.err = "GraphicsError"
              /\ UNCHANGED <<objs, cfgs, items, cam, trans, display>>]_vars

\* The drawn segment's mode was set to "both", and setArrow("diagonal") then
\* failed.
C7_Witness ==
    /\ call.op = "setArrow" /\ call.args[2] = "diagonal" /\ call.err = "GraphicsError"
    /\ objs[call.args[1]].canvas = Win
    /\ cfgs[objs[call.args[1]].config].arrow = "both"

\* C6: make_pizza_polygon of N >= 3 points returns exactly N triangles, triangle i
\* having the vertices points[i], points[(i+1) mod N] and the hub, the arithmetic
\* mean of the N points; of fewer than 3 points it fails and returns no triangle.
\* (The sequences are 1-based; a slice's vertices are held times den = N.)
C6_PizzaSlices ==
    call.op = "make_pizza_polygon" =>
        LET points == call.args
            n == Len(points)
        IN  IF n >= 3
            THEN /\ call.err = None
                 /\ Len(call.ret) = n
                 /\ \A i \in 0..(n - 1) :
                      LET t == call.ret[i + 1]
                      IN  /\ t.kind = "Triangle" /\ t.den = n
                          /\ t.pts[1] = VMul(points[i + 1], n)
                          /\ t.pts[2] = VMul(points[((i + 1) % n) + 1], n)
                          \* the hub is the mean: the points' deviations from it sum to 0
                          /\ SumPts([j \in 1..n |-> VAdd(t.pts[3], VNeg(VMul(points[j], n)))])
                               = Vector(0, 0, 0)
            ELSE call.err # None /\ call.ret = <<>>

\* A polygon of four points was cut into four slices.
C6_Witness ==
    /\ call.op = "make_pizza_polygon" /\ call.err = None /\ Len(call.ret) = 4
    /\ call.args = <<Vector(0, 0, 0), Vector(2, 0, 0), Vector(2, 2, 1), Vector(0, 2, -1)>>

====
